---- MODULE Spec2Model ----
(***************************************************************************)
(* Model of src/main.py: the retry-driven bulk fetch scheduler.            *)
(*                                                                         *)
(* One process (main) reads the identifiers of INPUT_CSV, creates          *)
(* OUTPUT_CSV with a header row when it is missing, and then runs rounds:   *)
(* every identifier of ids_to_process is submitted to a thread pool, each  *)
(* result is collected in completion order and either written to the CSV  *)
(* (status 200 or 404) or appended to retry_ids.  The loop ends when a     *)
(* round leaves retry_ids empty; create_zip_archive runs after it.         *)
(*                                                                         *)
(* The environment is the remote server (which answers each request), the  *)
(* file system (OUTPUT_CSV survives the process) and the operator, who may *)
(* kill the process and start it again.                                    *)
(***************************************************************************)
EXTENDS Integers, Sequences, FiniteSets, TLC

(* ------------------------------ bounds -------------------------------- *)

\* Largest identifier of the input file.
MaxId == 2

\* Longest input list.
MaxLen == 2

\* Transient answers the server may give for one identifier that is not stuck.
MaxTransient == 1

\* Process starts against the same files.
MaxRuns == 2

\* Largest size of the thread pool.  main.py:18 sets 100; the model takes
\* every size from 1 up to this one, so that a round can both hold more tasks
\* than workers and have several workers in flight.
MAX_WORKERS == 2

\* Rounds of one process; only an identifier that never settles reaches it.
MaxIteration == MaxTransient + 2

Ids == 1..MaxId

(* ----------------------------- pure helpers --------------------------- *)

\* The decimal digits of n, most significant first.
RECURSIVE Digits(_)
Digits(n) == IF n < 10 THEN <<n>> ELSE Append(Digits(n \div 10), n % 10)

\* Zero padding on the left up to width w.
RECURSIVE ZeroPad(_, _)
ZeroPad(s, w) == IF Len(s) >= w THEN s ELSE ZeroPad(<<0>> \o s, w)

\* f"{activation_id_int:06}": the identifier as text, at least 6 digits.
Format06(n) == ZeroPad(Digits(n), 6)

\* int(data['id']): the number a digit string denotes.
RECURSIVE ParseInt(_)
ParseInt(s) ==
    IF Len(s) = 0 THEN 0
    ELSE 10 * ParseInt(SubSeq(s, 1, Len(s) - 1)) + s[Len(s)]

\* The value of the input field on the page of identifier i.
SecretOf(i) == IF i = 1 THEN "ABC123" ELSE "ZZZ999"

\* What one attempt for identifier i can meet: session.get raises, or it
\* returns a response with a status code; a 200 page carries the value of its
\* input field ("" when the field or its value is missing), and handling a
\* 200 page may itself raise (parser, urljoin, writing the HTML file).
Responses(i) ==
    {[raises |-> TRUE, status_code |-> 0, value |-> "", fault |-> FALSE]}
    \cup {[raises |-> FALSE, status_code |-> s, value |-> "", fault |-> FALSE] :
             s \in {404, 429, 500}}
    \cup {[raises |-> FALSE, status_code |-> 200, value |-> v, fault |-> b] :
             v \in {"", SecretOf(i)}, b \in BOOLEAN}

\* Variant of process_activation_id without the except clause of
\* main.py:145-147: an exception leaves the function.
process_activation_id_unguarded(i, r) ==
    IF r.raises \/ (r.status_code = 200 /\ r.fault)
    THEN [id |-> <<>>, secret_code |-> "", status |-> -2]
    ELSE [id |-> Format06(i),
          secret_code |-> IF r.status_code = 200 /\ r.value # "" THEN r.value
                          ELSE "Not Found",
          status |-> r.status_code]

\* Variant of process_activation_id without the test of main.py:107: the
\* value of the input field is taken even when it is empty.
process_activation_id_any_value(i, r) ==
    IF r.raises \/ (r.status_code = 200 /\ r.fault)
    THEN [id |-> Format06(i), secret_code |-> "Error", status |-> 0]
    ELSE [id |-> Format06(i),
          secret_code |-> IF r.status_code = 200 THEN r.value ELSE "Not Found",
          status |-> r.status_code]

\* process_activation_id (main.py:78-149): the result dict of one attempt.
process_activation_id(i, r) ==
    LET result == [id |-> Format06(i), secret_code |-> "Not Found", status |-> 0]
    IN  IF r.raises
        THEN [result EXCEPT !.status = 0, !.secret_code = "Error"]
        ELSE IF r.status_code = 200
             THEN IF r.fault
                  THEN [result EXCEPT !.status = 0, !.secret_code = "Error"]
                  ELSE [result EXCEPT !.status = 200,
                                      !.secret_code = IF r.value # "" THEN r.value
                                                      ELSE "Not Found"]
             ELSE [result EXCEPT !.status = r.status_code]

\* Variants of the test of main.py:238: one that also takes a server error
\* for final, one that takes only 200 for final.
IsTerminalAlso500(status) == status = 200 \/ status = 404 \/ status = 500

IsTerminalOnly200(status) == status = 200

\* The test of main.py:238: the result is written, the identifier is done.
IsTerminal(status) == status = 200 \/ status = 404

\* Variant of the row: the payload cell is written by a later call.
RowOfNoPayload(data) ==
    [header |-> FALSE, id |-> data.id, secret_code |-> "", status |-> data.status]

\* The row written for a result (main.py:240-244): its three cells.
RowOf(data) ==
    [header |-> FALSE, id |-> data.id, secret_code |-> data.secret_code,
     status |-> data.status]

\* The header row (main.py:204); its three column names are not told apart.
Header == [header |-> TRUE, id |-> <<>>, secret_code |-> "", status |-> 0]

\* The cell of a row under the column 'Activation ID': the decimal text of an
\* integer, a text that is no integer, or nothing at all when the row is
\* shorter than the header (csv.DictReader gives None).
IntCell(n) == [kind |-> "int", text |-> Digits(n)]
TextCell == [kind |-> "text", text |-> <<>>]
NoCell == [kind |-> "none", text |-> <<>>]

\* main.py:177-182: the loop over the rows.  int() of a text that is no
\* integer raises ValueError, which skips the row.
RECURSIVE IdsOfRows(_)
IdsOfRows(rows) ==
    IF rows = <<>> THEN <<>>
    ELSE IF Head(rows).kind = "int"
         THEN <<ParseInt(Head(rows).text)>> \o IdsOfRows(Tail(rows))
         ELSE IdsOfRows(Tail(rows))

\* Variant of get_ids_from_csv that takes the first data row for a header.
get_ids_from_csv_skips_first(file) ==
    IF ~file.exists THEN [raises |-> FALSE, ids |-> <<>>]
    ELSE IF ~file.readable \/ \E k \in DOMAIN file.rows : file.rows[k].kind = "none"
         THEN [raises |-> TRUE, ids |-> <<>>]
         ELSE [raises |-> FALSE,
               ids |-> IF file.rows = <<>> THEN <<>> ELSE IdsOfRows(Tail(file.rows))]

\* get_ids_from_csv (main.py:168-186): the identifiers of the input file, in
\* file order.  A missing file gives the empty list (FileNotFoundError is
\* caught).  Any other exception leaves the function: a path that cannot be
\* opened or decoded (IsADirectoryError, PermissionError,
\* UnicodeDecodeError), and int(None) for a row shorter than the header
\* (TypeError, which except ValueError does not catch).
get_ids_from_csv(file) ==
    IF ~file.exists THEN [raises |-> FALSE, ids |-> <<>>]
    ELSE IF ~file.readable \/ \E k \in DOMAIN file.rows : file.rows[k].kind = "none"
         THEN [raises |-> TRUE, ids |-> <<>>]
         ELSE [raises |-> FALSE, ids |-> IdsOfRows(file.rows)]

(* ------------------------------- state -------------------------------- *)

VARIABLES
    input_csv,       \* INPUT_CSV: [exists, readable, rows]
    max_workers,     \* size the pool is created with (main.py:218)
    stuck,           \* identifiers the server never answers with 200 or 404
    quota,           \* transient answers the server may still give, per id
    file_exists,     \* OUTPUT_CSV is a file on disk
    disk,            \* rows of OUTPUT_CSV on disk
    runs_left,       \* process starts the operator still makes
    pc,              \* position of main: off, loop, collect, sleep, zip, exit,
                     \* crashed
    ids_to_process,  \* main.py:192, 252
    retry_ids,       \* main.py:212
    iteration,       \* main.py:206
    f_out,           \* rows written through the writer of the running round
    tasks,           \* futures of the running round, in submission order
    run_base,        \* rows on disk when this process entered the loop
    zips,            \* calls of create_zip_archive by this process
    assets_dir,      \* names of the files of ASSETS_DIR
    downloads,       \* per asset URL, the downloads written to ASSETS_DIR
    fetcher,         \* per identifier, the position of its worker in
                     \* download_asset and what the call has seen
    html_dir         \* the documents of HTML_DIR: [id, url, href]

vars == <<input_csv, max_workers, stuck, quota, file_exists, disk, runs_left, pc, ids_to_process,
          retry_ids, iteration, f_out, tasks, run_base, zips,
          assets_dir, downloads, fetcher, html_dir>>

asset == <<assets_dir, downloads, fetcher, html_dir>>

env == <<input_csv, max_workers, stuck>>

\* A future that has no result yet, and the answer of a request not yet made.
NoResult == [id |-> <<>>, secret_code |-> "", status |-> -1]
NoResponse == [raises |-> FALSE, status_code |-> -1, value |-> "", fault |-> FALSE]

\* A future that holds an exception instead of a result dict: future.result()
\* raises it in main (main.py:234).
Raised == [id |-> <<>>, secret_code |-> "", status |-> -2]

\* The asset URLs a fragment can reference: three stylesheets of the same
\* file name under different paths.  A URL is the sequence of its parts.
AssetUrls == {<<"https://cdn", dir, "app", ".css">> : dir \in {"a", "b", "c"}}

NoUrl == <<>>

\* main.py:51-58: the file name of the URL's path, split into name and
\* extension, and the first 8 hexadecimal digits of the md5 digest of the
\* whole URL.  The digest is not computed: it is a tag.  32 bits do not tell
\* all URLs apart; of the three URLs, those under "a" and "c" stand for a
\* pair with the same tag, that under "b" has another.
UrlName(url) == url[Len(url) - 1]
UrlExt(url) == url[Len(url)]
UrlHash(url) == <<"md5">> \o (IF url[2] = "c" THEN [url EXCEPT ![2] = "a"] ELSE url)

\* main.py:62: save_name = f"{name}_{url_hash}{ext}".
SaveName(url) == <<UrlName(url), "_">> \o UrlHash(url) \o <<UrlExt(url)>>

\* main.py:73: the reference download_asset returns, f"assets/{save_name}".
LocalRef(url) == <<"assets/">> \o SaveName(url)

\* Variant of the existence test: the file is never found.
PathExistsNever(dir, name) == FALSE

\* main.py:65: os.path.exists(save_path).
PathExists(dir, name) == name \in dir

\* A worker that is not in download_asset.
IdleFetcher == [at |-> "idle", url |-> NoUrl, saw_file |-> FALSE, resp |-> "none",
                ref |-> NoUrl]

\* No asset was downloaded and no document written.
AssetsStart ==
    /\ assets_dir = {}
    /\ downloads = [u \in AssetUrls |-> 0]
    /\ fetcher = [i \in Ids |-> IdleFetcher]
    /\ html_dir = {}

\* Lists over S of length at most n.
RECURSIVE ListsUpTo(_, _)
ListsUpTo(S, n) ==
    IF n = 0 THEN {<<>>}
    ELSE LET shorter == ListsUpTo(S, n - 1)
         IN  shorter \cup {Append(l, x) : l \in shorter, x \in S}

\* Identifiers are interchangeable, so of the lists that differ only by a
\* renaming of identifiers one is kept: the one whose identifiers first occur
\* in increasing order, starting at 1.
FirstOccurrencesAscend(l) ==
    \A k \in 1..Len(l) : \/ l[k] = 1
                          \/ \E j \in 1..(k - 1) : l[j] = l[k] \/ l[j] = l[k] - 1

InputLists == {l \in ListsUpTo(Ids, MaxLen) : FirstOccurrencesAscend(l)}

\* The file whose rows hold the identifiers of l.
FileOf(l) == [exists |-> TRUE, readable |-> TRUE, rows |-> [k \in DOMAIN l |-> IntCell(l[k])]]

\* The input files over the lists of L: no file; a path that cannot be read;
\* the file of each list; and, for the lists of at most one identifier, the
\* file with a row before it whose cell is no integer and the file with a
\* short row after it.
InputFiles(L) ==
    {[exists |-> FALSE, readable |-> FALSE, rows |-> <<>>],
     [exists |-> TRUE, readable |-> FALSE, rows |-> <<>>]}
    \cup {FileOf(l) : l \in L}
    \cup {[FileOf(l) EXCEPT !.rows = <<TextCell>> \o @] : l \in {m \in L : Len(m) <= 1}}
    \cup {[FileOf(l) EXCEPT !.rows = Append(@, NoCell)] : l \in {m \in L : Len(m) <= 1}}

\* The state before the first process starts: the input file holds one of
\* the lists of L, the pool has one of the sizes of W, the server has the
\* identifiers of one set of S stuck and gives at most q transient answers
\* for each other identifier, and the operator starts n processes.
Boot(L, W, S, q, n) ==
    /\ input_csv \in InputFiles(L)
    /\ max_workers \in W
    /\ stuck \in {s \in S : \A i \in s : \E k \in DOMAIN input_csv.rows :
                                         input_csv.rows[k] = IntCell(i)}
    /\ quota = [i \in Ids |-> q]
    /\ file_exists = FALSE
    /\ disk = <<>>
    /\ runs_left = n
    /\ pc = "off"
    /\ ids_to_process = <<>>
    /\ retry_ids = <<>>
    /\ iteration = 1
    /\ f_out = <<>>
    /\ tasks = <<>>
    /\ run_base = 0
    /\ zips = 0
    /\ AssetsStart

Init == Boot(InputLists, 1..MAX_WORKERS, {{}} \cup {{i} : i \in Ids}, MaxTransient, 1)

(* ------------------------------ the server ---------------------------- *)

\* The answer lets the identifier settle: a 404, or a 200 handled to the end.
Settles(r) == ~r.raises /\ ~r.fault /\ r.status_code \in {200, 404}

\* The answers the server can give now for identifier i.
Answers(i) ==
    {r \in Responses(i) :
        IF Settles(r) THEN i \notin stuck ELSE (i \in stuck \/ quota[i] > 0)}

(* ------------------------------ main.py ------------------------------- *)

\* Variant of the creation of the output file: without the test of
\* main.py:201 every process opens the file with mode 'w'.
CreateAlways(exists, rows) == <<>>

\* main.py:195, 201-202: a file that is missing is created empty by
\* open(OUTPUT_CSV, 'w'); a file that is there is left as it is.
CreateIfMissing(exists, rows) == IF ~exists THEN <<>> ELSE rows

\* main.py:189-202: a process starts and loads the identifiers.  If
\* get_ids_from_csv raises, main ends there, before it touches the output
\* file.  Otherwise it tests whether the output file is there: if it is not,
\* the process creates it and has the header still to write; otherwise it
\* goes to the loop.
Startup ==
    /\ pc \in {"off", "exit", "crashed"}
    /\ runs_left > 0
    /\ runs_left' = runs_left - 1
    /\ iteration' = 1
    /\ retry_ids' = <<>>
    /\ f_out' = <<>>
    /\ tasks' = <<>>
    /\ zips' = 0
    /\ LET loaded == get_ids_from_csv(input_csv)
       IN  IF loaded.raises
           THEN /\ pc' = "crashed"
                /\ ids_to_process' = <<>>
                /\ UNCHANGED <<disk, file_exists, run_base>>
           ELSE /\ ids_to_process' = loaded.ids
                /\ disk' = CreateIfMissing(file_exists, disk)
                /\ file_exists' = TRUE
                /\ run_base' = Len(disk')
                /\ pc' = IF file_exists THEN "loop" ELSE "header"
    /\ UNCHANGED <<env, asset, quota>>

\* main.py:203-206: the header row is written and the with block closes the
\* new file; only then is the row on disk.
WriteHeader ==
    /\ pc = "header"
    /\ disk' = Append(disk, Header)
    /\ run_base' = Len(disk')
    /\ pc' = "loop"
    /\ UNCHANGED <<env, asset, quota, file_exists, runs_left, ids_to_process, retry_ids,
                   iteration, f_out, tasks, zips>>

\* Variant of the submission: one future per distinct identifier.
SubmitDistinct(ids) ==
    LET keep == {k \in DOMAIN ids : \A j \in 1..(k - 1) : ids[j] # ids[k]}
        at(m) == CHOOSE k \in keep : Cardinality({j \in keep : j <= k}) = m
    IN  [m \in 1..Cardinality(keep) |->
            [id |-> ids[at(m)], st |-> "queued", response |-> NoResponse,
             result |-> NoResult]]

\* main.py:220-223: one future per entry of the work list, in list order.
Submit(ids) ==
    [k \in 1..Len(ids) |->
        [id |-> ids[k], st |-> "queued", response |-> NoResponse, result |-> NoResult]]

\* Variant of the loop test: the loop ends with one identifier left.
LoopTestMoreThanOne(ids) == Len(ids) > 1

\* main.py:208: the test of the while loop.
LoopTest(ids) == ids # <<>>

\* Variant of the next work list: a round that settled nothing ends the loop.
NextWorkListGivesUp(ids, retry) == IF retry = ids THEN <<>> ELSE retry

\* Variant of the next work list: one failure repeats the whole round.
NextWorkListWholeRound(ids, retry) == IF retry = <<>> THEN <<>> ELSE ids

\* main.py:252: the work list of the next round.
NextWorkList(ids, retry) == retry

\* main.py:208-223: the loop test succeeds; the round opens the output file
\* for append and submits every identifier of the work list.
BeginRound ==
    /\ pc = "loop"
    /\ LoopTest(ids_to_process)
    /\ iteration <= MaxIteration
    /\ retry_ids' = <<>>
    /\ f_out' = <<>>
    /\ tasks' = Submit(ids_to_process)
    /\ pc' = "collect"
    /\ UNCHANGED <<env, asset, quota, file_exists, disk, runs_left, ids_to_process, iteration,
                   run_base, zips>>

\* main.py:208: the loop test fails; main goes on to the archive step.
ExitLoop ==
    /\ pc = "loop"
    /\ ~LoopTest(ids_to_process)
    /\ pc' = "zip"
    /\ UNCHANGED <<env, asset, quota, file_exists, disk, runs_left, ids_to_process, retry_ids,
                   iteration, f_out, tasks, run_base, zips>>

Running == {k \in DOMAIN tasks : tasks[k].st = "running"}

\* Variant of the pool: a worker more than its size.
HasIdleWorkerOneMore(running, size) == Cardinality(running) <= size

\* ThreadPoolExecutor(max_workers=...), main.py:218: the pool starts a task
\* only while fewer than size workers are busy.
HasIdleWorker(running, size) == Cardinality(running) < size

\* ThreadPoolExecutor: an idle worker takes the oldest queued task; there are
\* at most max_workers workers.
WorkerStart(k) ==
    /\ pc = "collect"
    /\ tasks[k].st = "queued"
    /\ \A j \in 1..(k - 1) : tasks[j].st # "queued"
    /\ HasIdleWorker(Running, max_workers)
    /\ tasks' = [tasks EXCEPT ![k].st = "running"]
    /\ UNCHANGED <<env, asset, quota, file_exists, disk, runs_left, pc, ids_to_process,
                   retry_ids, iteration, f_out, run_base, zips>>

\* main.py:78-149: the worker finishes process_activation_id with the answer
\* r of the server; the future holds the result dict.
WorkerFinish(k, r) ==
    /\ pc = "collect"
    /\ tasks[k].st = "running"
    /\ r \in Answers(tasks[k].id)
    /\ tasks' = [tasks EXCEPT ![k].st = "done",
                              ![k].response = r,
                              ![k].result = process_activation_id(tasks[k].id, r)]
    /\ quota' = IF Settles(r) \/ tasks[k].id \in stuck THEN quota
                ELSE [quota EXCEPT ![tasks[k].id] = @ - 1]
    /\ fetcher' = [fetcher EXCEPT ![tasks[k].id] = IdleFetcher]
    /\ UNCHANGED <<env, assets_dir, downloads, html_dir, file_exists, disk, runs_left, pc, ids_to_process, retry_ids,
                   iteration, f_out, run_base, zips>>

\* Variant of the write: a 404 result is not written.
WriteRowSkips404(f, data) == IF data.status = 200 THEN Append(f, RowOf(data)) ELSE f

\* main.py:238-244: a result with status 200 or 404 is written as a row.
WriteRow(f, data) == IF IsTerminal(data.status) THEN Append(f, RowOf(data)) ELSE f

\* Variant of the retry: a result with status 0 is given up.
AddRetryDropsErrors(retry, data) ==
    IF IsTerminal(data.status) \/ data.status = 0 THEN retry
    ELSE Append(retry, ParseInt(data.id))

\* main.py:245-247: any other result puts the identifier on the retry list.
AddRetry(retry, data) ==
    IF IsTerminal(data.status) THEN retry ELSE Append(retry, ParseInt(data.id))

\* main.py:233-249: main takes a completed future and either writes its row
\* or puts the identifier on the retry list.  A future that holds an
\* exception ends main: the with blocks close the file and the pool, and the
\* archive step is not reached.
Collect(k) ==
    /\ pc = "collect"
    /\ tasks[k].st = "done"
    /\ LET data == tasks[k].result
       IN  IF data = Raised
           THEN /\ pc' = "crashed"
                /\ disk' = disk \o f_out
                /\ f_out' = <<>>
                /\ tasks' = <<>>
                /\ retry_ids' = retry_ids
           ELSE /\ f_out' = WriteRow(f_out, data)
                /\ retry_ids' = AddRetry(retry_ids, data)
                /\ tasks' = [tasks EXCEPT ![k].st = "collected",
                                          ![k].response = NoResponse]
                /\ UNCHANGED <<pc, disk>>
    /\ UNCHANGED <<env, asset, quota, file_exists, runs_left, ids_to_process, iteration,
                   run_base, zips>>

\* Variant of the join: the round ends with the first collected future.
RoundJoinedByFirst(ts) == \E k \in DOMAIN ts : ts[k].st = "collected"

\* main.py:233, 218: as_completed has yielded every future of the round and
\* the pool has shut down.
RoundJoined(ts) == \A k \in DOMAIN ts : ts[k].st = "collected"

\* main.py:218, 215, 252-259: every future was collected; the pool and the
\* file are closed (the written rows reach the disk), the retry list becomes
\* the work list, and main either sleeps or returns to the loop test.
EndRound ==
    /\ pc = "collect"
    /\ RoundJoined(tasks)
    /\ disk' = disk \o f_out
    /\ f_out' = <<>>
    /\ tasks' = <<>>
    /\ ids_to_process' = NextWorkList(ids_to_process, retry_ids)
    /\ pc' = IF ids_to_process' # <<>> THEN "sleep" ELSE "loop"
    /\ UNCHANGED <<env, asset, quota, file_exists, runs_left, retry_ids, iteration,
                   run_base, zips>>

\* main.py:256-257: the cooldown is over.
Wake ==
    /\ pc = "sleep"
    /\ iteration' = iteration + 1
    /\ pc' = "loop"
    /\ UNCHANGED <<env, asset, quota, file_exists, disk, runs_left, ids_to_process, retry_ids,
                   f_out, tasks, run_base, zips>>

\* main.py:152-165, 262: the archive step.
create_zip_archive ==
    /\ pc = "zip"
    /\ zips' = zips + 1
    /\ pc' = "exit"
    /\ UNCHANGED <<env, asset, quota, file_exists, disk, runs_left, ids_to_process, retry_ids,
                   iteration, f_out, tasks, run_base>>

\* The process is killed.  Of the rows written in the running round, the
\* first n had left the buffer of the file object and stay on disk.  A
\* process killed before its header was on disk leaves the file empty.
Kill ==
    /\ pc \in {"header", "loop", "collect", "sleep", "zip"}
    /\ \E n \in 0..Len(f_out) : disk' = disk \o SubSeq(f_out, 1, n)
    /\ run_base' = Len(disk')
    /\ pc' = "off"
    /\ ids_to_process' = <<>>
    /\ retry_ids' = <<>>
    /\ iteration' = 1
    /\ f_out' = <<>>
    /\ tasks' = <<>>
    /\ zips' = 0
    /\ UNCHANGED <<env, asset, quota, file_exists, runs_left>>

Next ==
    \/ Startup
    \/ WriteHeader
    \/ BeginRound
    \/ ExitLoop
    \/ \E k \in DOMAIN tasks : WorkerStart(k)
    \/ \E k \in DOMAIN tasks : \E r \in Responses(tasks[k].id) : WorkerFinish(k, r)
    \/ \E k \in DOMAIN tasks : Collect(k)
    \/ EndRound
    \/ Wake
    \/ create_zip_archive

\* One process, run from its start to its end.
Spec == Init /\ [][Next]_vars

\* Up to MaxRuns processes, one after the other, against the same files; a
\* process may be killed at any point of its loop.
InitRestart ==
    Boot({l \in InputLists : Len(l) <= 2}, {MAX_WORKERS}, {{}}, 1, MaxRuns)

NextRestart == Next \/ Kill

SpecRestart == InitRestart /\ [][NextRestart]_vars

\* The steps of the main thread and the steps of the pool's workers.
MainStep ==
    \/ WriteHeader
    \/ BeginRound
    \/ ExitLoop
    \/ \E k \in DOMAIN tasks : Collect(k)
    \/ EndRound
    \/ Wake
    \/ create_zip_archive

WorkerStep ==
    \/ \E k \in DOMAIN tasks : WorkerStart(k)
    \/ \E k \in DOMAIN tasks : \E r \in Responses(tasks[k].id) : WorkerFinish(k, r)

\* One process with the pool at its full size and a server that has no
\* identifier stuck, whose threads are scheduled fairly: main does not stop
\* while it can take a step, and a worker that can start or finish a request
\* does so (every request has a timeout).
InitLive == Boot(InputLists, {MAX_WORKERS}, {{}}, MaxTransient, 1)

SpecLive == InitLive /\ [][Next]_vars /\ WF_vars(MainStep) /\ WF_vars(WorkerStep)

\* The scenario of three identifiers: the server answers identifier 1 with
\* a page that holds the code "ABC123", identifier 2 with 404, and
\* identifier 3 with 429 once and then with a page that holds "ZZZ999".
ScenarioIds == <<1, 2, 3>>

ScenarioAnswer(i) ==
    LET page == [raises |-> FALSE, status_code |-> 200, value |-> SecretOf(i),
                 fault |-> FALSE]
        bare(code) == [raises |-> FALSE, status_code |-> code, value |-> "",
                       fault |-> FALSE]
    IN  CASE i = 1 -> page
          [] i = 2 -> bare(404)
          [] OTHER -> IF quota[i] > 0 THEN bare(429) ELSE page

InitScenario ==
    /\ input_csv = FileOf(ScenarioIds)
    /\ max_workers \in 1..MAX_WORKERS
    /\ stuck = {}
    /\ quota = [i \in {ScenarioIds[k] : k \in DOMAIN ScenarioIds} |-> IF i = 3 THEN 1 ELSE 0]
    /\ file_exists = FALSE
    /\ disk = <<>>
    /\ runs_left = 1
    /\ pc = "off"
    /\ ids_to_process = <<>>
    /\ retry_ids = <<>>
    /\ iteration = 1
    /\ f_out = <<>>
    /\ tasks = <<>>
    /\ run_base = 0
    /\ zips = 0
    /\ AssetsStart

NextScenario ==
    \/ Startup
    \/ WriteHeader
    \/ BeginRound
    \/ ExitLoop
    \/ \E k \in DOMAIN tasks : WorkerStart(k)
    \/ \E k \in DOMAIN tasks : WorkerFinish(k, ScenarioAnswer(tasks[k].id))
    \/ \E k \in DOMAIN tasks : Collect(k)
    \/ EndRound
    \/ Wake
    \/ create_zip_archive

SpecScenario == InitScenario /\ [][NextScenario]_vars

(* --------------------------- download_asset --------------------------- *)

\* Everything the steps of download_asset leave alone.
main_state == <<quota, file_exists, disk, runs_left, pc, ids_to_process, retry_ids,
                iteration, f_out, tasks, run_base, zips>>

\* main.py:126-129, 51-65: the worker of task k has a 200 page whose fragment
\* references the stylesheet url; download_asset computes the save path and
\* tests whether the file exists.  If it does, the call returns the local
\* reference without a request.
AssetExists(k, url) ==
    /\ pc = "collect"
    /\ tasks[k].st = "running"
    /\ fetcher[tasks[k].id].at = "idle"
    /\ LET saw == PathExists(assets_dir, SaveName(url))
       IN  fetcher' = [fetcher EXCEPT ![tasks[k].id] =
                          [at |-> IF saw THEN "return" ELSE "get", url |-> url,
                           saw_file |-> saw, resp |-> "none",
                           ref |-> IF saw THEN LocalRef(url) ELSE NoUrl]]
    /\ UNCHANGED <<env, main_state, assets_dir, downloads, html_dir>>

\* The outcomes of session.get for an asset: it raises, or it returns a
\* response with status 200 or with another status.
AssetResponses == {"raises", "200", "404"}

\* main.py:66-67, 73-75: the request for the asset.  An exception makes
\* download_asset return the URL; a status other than 200 skips the write
\* and the call returns the local reference; a 200 goes on to the write.
AssetGet(k, a) ==
    /\ pc = "collect"
    /\ tasks[k].st = "running"
    /\ fetcher[tasks[k].id].at = "get"
    /\ LET f == fetcher[tasks[k].id]
       IN  fetcher' = [fetcher EXCEPT ![tasks[k].id] =
                          CASE a = "raises" -> [f EXCEPT !.at = "return", !.resp = a,
                                                         !.ref = f.url]
                            [] a = "200" -> [f EXCEPT !.at = "write", !.resp = a]
                            [] OTHER -> [f EXCEPT !.at = "return", !.resp = a,
                                                  !.ref = LocalRef(f.url)]]
    /\ UNCHANGED <<env, main_state, assets_dir, downloads, html_dir>>

\* main.py:68-69, 73: the content is written to the save path and the call
\* returns the local reference.
AssetWrite(k) ==
    /\ pc = "collect"
    /\ tasks[k].st = "running"
    /\ fetcher[tasks[k].id].at = "write"
    /\ LET f == fetcher[tasks[k].id]
       IN  /\ assets_dir' = assets_dir \cup {SaveName(f.url)}
           /\ downloads' = [downloads EXCEPT ![f.url] = @ + 1]
           /\ fetcher' = [fetcher EXCEPT ![tasks[k].id] =
                              [f EXCEPT !.at = "return", !.ref = LocalRef(f.url)]]
    /\ UNCHANGED <<env, main_state, html_dir>>

\* main.py:129, 140-143: the reference of the tag is replaced by what
\* download_asset returned and the document is written to HTML_DIR.
SaveDocument(k) ==
    /\ pc = "collect"
    /\ tasks[k].st = "running"
    /\ fetcher[tasks[k].id].at = "return"
    /\ LET f == fetcher[tasks[k].id]
       IN  /\ html_dir' = html_dir \cup {[id |-> Format06(tasks[k].id), url |-> f.url,
                                          href |-> f.ref]}
           /\ fetcher' = [fetcher EXCEPT ![tasks[k].id] = [f EXCEPT !.at = "saved"]]
    /\ UNCHANGED <<env, main_state, assets_dir, downloads>>

\* The answer r fits what the worker of task k has done.  A worker that
\* never entered download_asset can end with any answer (no page, a page
\* without fragment, or an exception before main.py:129).  A worker whose
\* download_asset call has returned had a 200 page: it ends with status 0 when
\* the handling raises before the document is written (urljoin of
\* main.py:133, 138, the open of main.py:142), and with the page's result,
\* with or without a code, once the document is written.  Inside
\* download_asset every exception is caught, so the attempt cannot end there.
FitsFetcher(k, r) ==
    CASE fetcher[tasks[k].id].at = "idle" -> TRUE
      [] fetcher[tasks[k].id].at = "return" ->
            ~r.raises /\ r.status_code = 200 /\ r.fault
      [] fetcher[tasks[k].id].at = "saved" ->
            ~r.raises /\ r.status_code = 200 /\ ~r.fault
      [] OTHER -> FALSE

\* Pages with a stylesheet: at most two identifiers, each occurring once, the
\* pool at its largest size, each identifier with at most one transient
\* answer.
InitAssets ==
    Boot({l \in InputLists : Len(l) <= 2 /\ \A j, k \in DOMAIN l : l[j] = l[k] => j = k},
         {MAX_WORKERS}, {{}}, 1, 1)

NextAssets ==
    \/ Startup
    \/ WriteHeader
    \/ BeginRound
    \/ ExitLoop
    \/ \E k \in DOMAIN tasks : WorkerStart(k)
    \/ \E k \in DOMAIN tasks : \E url \in AssetUrls : AssetExists(k, url)
    \/ \E k \in DOMAIN tasks : \E a \in AssetResponses : AssetGet(k, a)
    \/ \E k \in DOMAIN tasks : AssetWrite(k)
    \/ \E k \in DOMAIN tasks : SaveDocument(k)
    \/ \E k \in DOMAIN tasks : \E r \in Responses(tasks[k].id) :
          FitsFetcher(k, r) /\ WorkerFinish(k, r)
    \/ \E k \in DOMAIN tasks : Collect(k)
    \/ EndRound
    \/ Wake
    \/ create_zip_archive

SpecAssets == InitAssets /\ [][NextAssets]_vars

(* ---------------------------- vocabulary ------------------------------ *)

\* Entries of the sequence q that satisfy Test.
CountIf(q, Test(_)) == Cardinality({k \in DOMAIN q : Test(q[k])})

\* Occurrences of x in the sequence q.
Occ(x, q) == Cardinality({k \in DOMAIN q : q[k] = x})

Range(q) == {q[k] : k \in DOMAIN q}

NoDuplicates(q) == \A j, k \in DOMAIN q : q[j] = q[k] => j = k

IsPrefix(p, q) == Len(p) <= Len(q) /\ SubSeq(q, 1, Len(p)) = p

\* The identifiers the process was given.
InputIds == get_ids_from_csv(input_csv).ids

\* The integers of the cells of the input file, in file order.
FileInts ==
    LET cells == SelectSeq(input_csv.rows, LAMBDA c : c.kind = "int")
    IN  [k \in DOMAIN cells |-> ParseInt(cells[k].text)]

\* The records of the sink: every row of the file but the header.
Records(rows) == SelectSeq(rows, LAMBDA row : ~row.header)

\* The rows this process has written: those on disk since it started and
\* those of the running round.
RunRows == SubSeq(disk, run_base + 1, Len(disk)) \o f_out

\* Records of identifier i among rows.
RecordsOf(i, rows) == CountIf(rows, LAMBDA row : ~row.header /\ row.id = Format06(i))

\* The loop has ended: main is at or after the archive step.
Done == pc \in {"zip", "exit"}

\* A process is running: main has started and has not returned.
Alive == pc \in {"header", "loop", "collect", "sleep", "zip"}

\* Futures of the running round whose result main has not taken yet.
Dispatched == {k \in DOMAIN tasks : tasks[k].st # "collected"}

\* The list of identifiers that wait for the next round.
Pending == IF pc = "collect" THEN retry_ids ELSE ids_to_process

(* ------------------------------- claims ------------------------------- *)

\* C1 as stated: once the loop has reached Done, the sink holds exactly one
\* record for every identifier of the input, and every record has status 200
\* or 404.
C1_ExactlyOneRecord ==
    Done =>
        /\ \A i \in Range(InputIds) : RecordsOf(i, disk) = 1
        /\ \A k \in DOMAIN disk : ~disk[k].header => disk[k].status \in {200, 404}

\* C1 amended: every row the process writes has status 200 or 404, at no time
\* has it written more records for an identifier than the input list has
\* occurrences of it, and once the loop has reached Done the records it has
\* appended hold exactly one record per occurrence (exactly one for an
\* identifier that occurs once).
C1_OneRecordPerOccurrence ==
    /\ \A k \in DOMAIN RunRows : ~RunRows[k].header /\ RunRows[k].status \in {200, 404}
    /\ \A i \in Ids : RecordsOf(i, RunRows) <= Occ(i, InputIds)
    /\ Done => /\ f_out = <<>>
               /\ Len(RunRows) = Len(InputIds)
               /\ \A i \in Ids : RecordsOf(i, RunRows) = Occ(i, InputIds)

\* C1 witness: the loop is done after a retry round, with two records
\* appended for an identifier that the input names twice.
C1_Witness ==
    /\ Done
    /\ iteration = 2
    /\ InputIds = <<1, 1>>
    /\ RecordsOf(1, RunRows) = 2

\* C2 as stated: while a process runs, every identifier of the input is in
\* exactly one of the groups dispatched, pending retry, settled.
C2_ExactlyOneGroup ==
    Alive =>
        \A i \in Range(InputIds) :
            LET dispatched == \E k \in Dispatched : tasks[k].id = i
                pending == i \in Range(Pending) /\ ~dispatched
                settled == RecordsOf(i, disk \o f_out) > 0
            IN  /\ dispatched \/ pending \/ settled
                /\ ~(dispatched /\ settled)
                /\ ~(pending /\ settled)

\* C2 amended: while a process runs, for every identifier the futures of it
\* that are dispatched and not yet collected, its entries on the list that
\* waits for the next round and the records this process has written for it
\* add up to its occurrences in the input list; no occurrence is dropped and
\* none is counted twice.
C2_OccurrencesAccounted ==
    Alive =>
        \A i \in Ids :
            Cardinality({k \in Dispatched : tasks[k].id = i})
              + (IF pc = "collect" THEN Occ(i, retry_ids) ELSE Occ(i, ids_to_process))
              + RecordsOf(i, RunRows)
            = Occ(i, InputIds)

\* C2 witness: in one round over two distinct identifiers one is settled,
\* one waits for the next round, and none is in flight.
C2_Witness ==
    /\ pc = "collect"
    /\ InputIds = <<1, 2>>
    /\ Dispatched = {}
    /\ Len(retry_ids) = 1
    /\ Len(f_out) = 1

\* C3: the classification depends on the status alone.  Whenever main takes
\* the result of a future, in whatever round: if its status is 200 or 404 its
\* row is written and the retry list is left alone; for every other status
\* (429, 0, 500) nothing is written and the identifier of the future is put
\* on the retry list.
C3_ClassifiedByStatusAlone ==
    [][\A k \in DOMAIN tasks :
          (tasks[k].st = "done" /\ k \in DOMAIN tasks' /\ tasks'[k].st = "collected")
          => LET data == tasks[k].result
             IN  IF data.status \in {200, 404}
                 THEN /\ f_out' = Append(f_out, RowOf(data))
                      /\ retry_ids' = retry_ids
                 ELSE /\ data.status \in {0, 429, 500}
                      /\ f_out' = f_out
                      /\ retry_ids' = Append(retry_ids, tasks[k].id)]_vars

\* C3 witness: in a second round main has taken a 404 result, written, and a
\* 500 result, put on the retry list.
C3_Witness ==
    /\ pc = "collect"
    /\ iteration = 2
    /\ \E j, k \in DOMAIN tasks :
          /\ tasks[j].st = "collected" /\ tasks[j].result.status = 404
          /\ tasks[k].st = "collected" /\ tasks[k].result.status = 500
          /\ f_out = <<RowOf(tasks[j].result)>>
          /\ retry_ids = <<tasks[k].id>>

\* Futures of the running round whose result has the status s.
WithStatus(s) == {k \in DOMAIN tasks : tasks[k].result.status = s}

\* C4: when every future of a round has been collected and the results were
\* N times 200, M times 404 and K times 429 and nothing else, the round has
\* written N+M rows, the retry list has K entries, the identifiers written
\* and the identifiers to retry together are the identifiers of the round,
\* and, the round being over a set (no identifier twice), no identifier is in
\* both.
C4_RoundPartition ==
    (/\ pc = "collect"
     /\ Dispatched = {}
     /\ \A k \in DOMAIN tasks : tasks[k].result.status \in {200, 404, 429})
    => LET written == {i \in Ids : RecordsOf(i, f_out) > 0}
       IN  /\ Len(f_out) = Cardinality(WithStatus(200)) + Cardinality(WithStatus(404))
           /\ Len(retry_ids) = Cardinality(WithStatus(429))
           /\ written \cup Range(retry_ids) = Range(ids_to_process)
           /\ NoDuplicates(ids_to_process) => written \cap Range(retry_ids) = {}

\* C4 witness: a round over two distinct identifiers is complete, one
\* answered 404 and the other 429.
C4_Witness ==
    /\ pc = "collect"
    /\ Dispatched = {}
    /\ NoDuplicates(ids_to_process)
    /\ Cardinality(WithStatus(404)) = 1
    /\ Cardinality(WithStatus(429)) = 1

\* C5: when no identifier is stuck (every identifier gets a 200 or 404 after
\* at most MaxTransient transient answers) and the threads are scheduled
\* fairly, a running process eventually leaves the loop with an empty work
\* list and a record for every occurrence of every identifier of the input.
C5_EventuallyDone ==
    (Alive /\ stuck = {})
    ~> (/\ Done
        /\ ids_to_process = <<>>
        /\ \A i \in Ids : RecordsOf(i, RunRows) = Occ(i, InputIds))

\* C5 witness: with no identifier stuck, the loop is done after a retry
\* round and both identifiers of the input have their record on disk.
C5_Witness ==
    /\ Done
    /\ stuck = {}
    /\ iteration = 2
    /\ InputIds = <<1, 2>>
    /\ RecordsOf(1, disk) = 1
    /\ RecordsOf(2, disk) = 1

\* C6: main leaves the loop only at the loop test, with the retry list of
\* the last round empty, no future outstanding and no row unwritten; the
\* archive step runs only from there and only once; and after the loop has
\* been left no future is submitted and the output file is not written.
C6_ArchiveOnlyAfterDone ==
    [][/\ (~Done /\ Done')
            => /\ pc = "loop" /\ pc' = "zip"
               /\ ids_to_process = <<>> /\ retry_ids = <<>>
               /\ tasks = <<>> /\ f_out = <<>>
       /\ zips' # zips => (pc = "zip" /\ pc' = "exit" /\ zips = 0 /\ zips' = 1)
       /\ Done => /\ Done'
                  /\ tasks' = <<>>
                  /\ f_out' = <<>>
                  /\ disk' = disk]_vars

\* C6 witness: the archive step has run after two rounds that left records
\* in the output file.
C6_Witness ==
    /\ pc = "exit"
    /\ zips = 1
    /\ iteration = 2
    /\ Len(disk) > 1

\* The result dict of a failed attempt (main.py:145-147).
ErrorResult(i) == [id |-> Format06(i), secret_code |-> "Error", status |-> 0]

\* C7: no future holds an exception and main is never ended by one.  An
\* attempt whose request raised, or whose handling of the response raised,
\* has the result (id, "Error", 0), which goes to the retry list; and when a
\* round is complete every future has given exactly one result: rows written
\* and retry entries together are as many as the identifiers dispatched.
C7_FailuresBecomeOutcomes ==
    /\ pc = "crashed" => (tasks = <<>> /\ iteration = 1 /\ get_ids_from_csv(input_csv).raises)
    /\ \A k \in DOMAIN tasks :
          /\ tasks[k].result # Raised
          /\ tasks[k].st \in {"done", "collected"}
                => tasks[k].result.id = Format06(tasks[k].id)
          /\ (tasks[k].st = "done" /\ (tasks[k].response.raises \/ tasks[k].response.fault))
                => tasks[k].result = ErrorResult(tasks[k].id)
          /\ (tasks[k].st = "collected" /\ tasks[k].result.status = 0)
                => tasks[k].id \in Range(retry_ids)
    /\ (pc = "collect" /\ Dispatched = {})
          => Len(f_out) + Len(retry_ids) = Len(ids_to_process)

\* C7 witness: a round over two identifiers is complete; the attempt for one
\* failed with an exception and is on the retry list, the other is written.
C7_Witness ==
    /\ pc = "collect"
    /\ Dispatched = {}
    /\ \E j, k \in DOMAIN tasks :
          /\ tasks[j].result = ErrorResult(tasks[j].id)
          /\ retry_ids = <<tasks[j].id>>
          /\ f_out = <<RowOf(tasks[k].result)>>

\* C8 as stated: every attempt whose response had status 200 has a result
\* with status 200, with the payload "Not Found" when the page gave no value.
C8_Status200Kept ==
    \A k \in DOMAIN tasks :
        (tasks[k].st = "done" /\ tasks[k].response.status_code = 200)
        => /\ tasks[k].result.status = 200
           /\ tasks[k].response.value = "" => tasks[k].result.secret_code = "Not Found"

\* C8 amended: when main takes the result of an attempt whose response had
\* status 200, then, if handling the response raised no exception, the result
\* has status 200, its payload is "Not Found" when the page gave no value,
\* the row (id, payload, 200) is written and the identifier is not retried;
\* if handling the response raised, the result is (id, "Error", 0), nothing
\* is written and the identifier is put on the retry list.
C8_Status200KeptUnlessRaised ==
    [][\A k \in DOMAIN tasks :
          (/\ tasks[k].st = "done" /\ tasks[k].response.status_code = 200
           /\ k \in DOMAIN tasks' /\ tasks'[k].st = "collected")
          => LET data == tasks[k].result
             IN  IF ~tasks[k].response.fault
                 THEN /\ data.status = 200
                      /\ data.secret_code = IF tasks[k].response.value = ""
                                            THEN "Not Found"
                                            ELSE tasks[k].response.value
                      /\ f_out' = Append(f_out, [header |-> FALSE,
                                                  id |-> Format06(tasks[k].id),
                                                  secret_code |-> data.secret_code,
                                                  status |-> 200])
                      /\ retry_ids' = retry_ids
                 ELSE /\ data = ErrorResult(tasks[k].id)
                      /\ f_out' = f_out
                      /\ retry_ids' = Append(retry_ids, tasks[k].id)]_vars

\* C8 witness: main has taken the result of a 200 page without a value: the
\* row (id, "Not Found", 200) is written and the identifier is not retried.
C8_Witness ==
    /\ pc = "collect"
    /\ \E k \in DOMAIN tasks :
          /\ tasks[k].st = "collected"
          /\ tasks[k].result.status = 200
          /\ tasks[k].result.secret_code = "Not Found"
          /\ f_out = <<[header |-> FALSE, id |-> Format06(tasks[k].id),
                        secret_code |-> "Not Found", status |-> 200]>>
          /\ tasks[k].id \notin Range(retry_ids)

\* A process starts with this step.
Starts == pc \in {"off", "exit", "crashed"} /\ pc' \in {"header", "loop"}

\* The process has passed its start: it is in or after the loop.
InLoop == pc \in {"loop", "collect", "sleep", "zip", "exit"}

\* C9 as stated: over the runs against one output file the header is written
\* exactly once, by the run that finds no file: a process that finds the file
\* writes no header and only appends records after the rows already there,
\* and once a process is in its loop the file holds one header row, its
\* first.
C9_HeaderOnce ==
    [][/\ (file_exists /\ pc # "header")
             => /\ IsPrefix(disk, disk')
                /\ \A k \in (Len(disk) + 1)..Len(disk') : ~disk'[k].header
       /\ InLoop' => /\ CountIf(disk', LAMBDA row : row.header) = 1
                     /\ disk'[1] = Header]_vars

\* C10: no step of a process, a kill included, and no start of a later
\* process changes or removes a row that is on disk: the file before the step
\* is a prefix of the file after it, and the file once there stays there.
C10_AppendOnly ==
    [][/\ IsPrefix(disk, disk')
       /\ file_exists => file_exists']_vars

\* C10 witness: the first process was killed in a round over two identifiers
\* when one of the two rows had reached the disk; the process started after
\* it has appended a row behind it.
C10_Witness ==
    /\ Len(InputIds) = 2
    /\ runs_left = 0
    /\ run_base = 2
    /\ Len(disk) > run_base
    /\ pc \in {"sleep", "loop", "zip"}

\* The rows that were on disk when this process started.
EarlierRows == SubSeq(disk, 1, run_base)

\* C11 as stated: a process started again on the same input dispatches no
\* identifier that has a record among the rows an earlier process left.
C11_SettledNotRefetched ==
    \A k \in DOMAIN tasks : RecordsOf(tasks[k].id, EarlierRows) = 0

\* C11 amended: the rows an earlier process left stay in the file, and a
\* process started again loads the whole input list, whatever the file holds:
\* its first round dispatches every identifier of the input, those with a
\* record of an earlier process included.
C11_RestartRefetchesAll ==
    [][/\ Starts => /\ ids_to_process' = FileInts
                    /\ SubSeq(disk', 1, Len(disk)) = disk
       /\ (pc = "loop" /\ pc' = "collect" /\ iteration = 1)
             => /\ Len(tasks') = Len(FileInts)
                /\ \A k \in DOMAIN tasks' : tasks'[k].id = FileInts[k]
                /\ EarlierRows' = EarlierRows
       /\ Len(disk') >= Len(disk)]_vars

\* C11 witness: the first process was killed with one of two identifiers
\* settled on disk; the second process has fetched that identifier again and
\* its record is in the file twice.
C11_Witness ==
    /\ runs_left = 0
    /\ Len(FileInts) = 2
    /\ run_base = 2
    /\ \E i \in Ids : /\ RecordsOf(i, EarlierRows) = 1
                       /\ RecordsOf(i, disk) = 2

\* C12 as stated: when the input file cannot be read the process aborts at
\* its start: it runs no round, does not reach Done and does not archive.
C12_MissingInputAborts ==
    (~input_csv.exists \/ ~input_csv.readable)
        => (pc \in {"off", "crashed"} /\ ~file_exists /\ zips = 0)

\* Futures of the running round for identifier i, collected or not.
TasksOf(i) == Cardinality({k \in DOMAIN tasks : tasks[k].id = i})

\* C15: the loop has no retry cap.  While the process runs, an identifier
\* whose every Outcome is transient has no record, keeps all its occurrences
\* in the work list between rounds and is dispatched for each of them in
\* every round, and the process reaches neither Done nor the archive step.
C15_NoRetryCap ==
    \A i \in stuck :
        Alive =>
            /\ RecordsOf(i, RunRows) = 0
            /\ ~Done
            /\ zips = 0
            /\ pc = "collect" => TasksOf(i) = Occ(i, InputIds)
            /\ pc \in {"loop", "sleep"} => Occ(i, ids_to_process) = Occ(i, InputIds)

\* C15 witness: an identifier that never settles is in flight in a round
\* later than any round an identifier that settles can need, still without
\* a record, while the other identifier of the input has its record.
C15_Witness ==
    /\ pc = "collect"
    /\ iteration = MaxTransient + 2
    /\ \E k \in DOMAIN tasks : tasks[k].id \in stuck /\ tasks[k].st = "running"
    /\ \E i \in Ids \ stuck : RecordsOf(i, disk) = 1
    /\ \A i \in stuck : RecordsOf(i, disk) = 0

\* C16: in every state the fetches in flight are at most the size of the
\* pool, which is at most MAX_WORKERS.
C16_BoundedConcurrency ==
    /\ Cardinality(Running) <= max_workers
    /\ max_workers <= MAX_WORKERS
    /\ Cardinality(Running) <= MAX_WORKERS

\* C16 witness: every worker of the pool is busy and a submitted identifier
\* waits in the queue.
C16_Witness ==
    /\ Cardinality(Running) = max_workers
    /\ \E k \in DOMAIN tasks : tasks[k].st = "queued"

\* C17: rounds are joined.  Outside a round no future exists; a round is left
\* only when main has taken the Outcome of every future of it and has either
\* written it or put its identifier on the retry list; only then is the retry
\* decision taken, and the round counter moves only after the cooldown that
\* follows it.
C17_RoundsJoined ==
    [][/\ pc # "collect" => tasks = <<>>
       /\ (pc = "collect" /\ pc' # "collect")
             => /\ \A k \in DOMAIN tasks : tasks[k].st = "collected"
                /\ Len(f_out) + Len(retry_ids) = Len(tasks)
                /\ ids_to_process' = retry_ids
                /\ pc' = IF retry_ids = <<>> THEN "loop" ELSE "sleep"
       /\ pc = "collect" => (ids_to_process' = ids_to_process \/ pc' # "collect")
       /\ iteration' # iteration => (pc = "sleep" /\ tasks = <<>>)
       /\ (pc' = "collect" /\ pc # "collect")
             => (pc = "loop" /\ tasks = <<>> /\ f_out = <<>>)]_vars

\* C17 witness: the second round is running with the one identifier the
\* first round put on the retry list, after the first round wrote the record
\* of the other.
C17_Witness ==
    /\ pc = "collect"
    /\ iteration = 2
    /\ Len(InputIds) = 2
    /\ Len(tasks) = 1
    /\ Len(Records(disk)) = 1
    /\ tasks[1].st = "running"

\* A worker has moved: a future went from queued to running or from running
\* to done.
WorkerMoved ==
    \E k \in DOMAIN tasks \cap DOMAIN tasks' :
        tasks'[k].st \in {"running", "done"} /\ tasks'[k].st # tasks[k].st

\* C18: writes to the sink are serialized.  A step of a worker leaves the
\* file alone; the file object grows only when main takes one completed
\* future, and then by exactly one whole row: the identifier, the payload
\* and the status of that future's Outcome.
C18_SerializedWrites ==
    [][/\ WorkerMoved => (f_out' = f_out /\ disk' = disk /\ file_exists' = file_exists)
       /\ (f_out' # f_out /\ f_out' # <<>>)
             => \E k \in DOMAIN tasks :
                    /\ tasks[k].st = "done"
                    /\ tasks'[k].st = "collected"
                    /\ \A j \in DOMAIN tasks \ {k} : tasks'[j] = tasks[j]
                    /\ f_out' = Append(f_out,
                                      [header |-> FALSE,
                                       id |-> Format06(tasks[k].id),
                                       secret_code |-> tasks[k].result.secret_code,
                                       status |-> tasks[k].result.status])
       /\ disk' # disk => (~WorkerMoved /\ disk' \in {disk \o f_out, <<Header>>})]_vars

\* C18 witness: main has written the row of one future while another worker
\* is still fetching.
C18_Witness ==
    /\ Len(f_out) = 1
    /\ f_out[1].secret_code = "ABC123"
    /\ \E j, k \in DOMAIN tasks : tasks[j].st = "collected" /\ tasks[k].st = "running"

\* C20: the work list is a list.  The first round dispatches one future per
\* entry of the input list, so k futures for an identifier that occurs k
\* times; no round dispatches more; and at Done the process has appended as
\* many records as the input list is long, the identifiers of the records
\* being those of the input list with the same multiplicities.
C20_ListNotSet ==
    /\ (pc = "collect" /\ iteration = 1)
          => /\ Len(tasks) = Len(InputIds)
             /\ \A i \in Ids : TasksOf(i) = Occ(i, InputIds)
    /\ \A i \in Ids : TasksOf(i) <= Occ(i, InputIds)
    /\ Done => /\ Len(Records(RunRows)) = Len(InputIds)
               /\ \A i \in Ids : RecordsOf(i, RunRows) = Occ(i, InputIds)

\* C20 witness: the input names one identifier twice; the process is done
\* after one round with two records for it, one of each terminal status.
C20_Witness ==
    /\ pc = "exit"
    /\ iteration = 1
    /\ InputIds = <<1, 1>>
    /\ Len(disk) = 3
    /\ {disk[2].status, disk[3].status} = {200, 404}

\* The three records of the scenario.
ScenarioRow(i) ==
    CASE i = 1 -> [header |-> FALSE, id |-> <<0, 0, 0, 0, 0, 1>>,
                   secret_code |-> "ABC123", status |-> 200]
      [] i = 2 -> [header |-> FALSE, id |-> <<0, 0, 0, 0, 0, 2>>,
                   secret_code |-> "Not Found", status |-> 404]
      [] OTHER -> [header |-> FALSE, id |-> <<0, 0, 0, 0, 0, 3>>,
                   secret_code |-> "ZZZ999", status |-> 200]

\* C13: with input [1, 2, 3] and the answers of the scenario, the first round
\* dispatches the three identifiers and the retry round only identifier 3;
\* there is no third round; at Done, reached in the second round, the sink
\* holds exactly the three records of the scenario, that of identifier 3
\* after those of identifiers 1 and 2.
C13_ThreeIdentifiers ==
    /\ iteration <= 2
    /\ (pc = "collect" /\ iteration = 1) => [k \in DOMAIN tasks |-> tasks[k].id] = <<1, 2, 3>>
    /\ (pc = "collect" /\ iteration = 2) => [k \in DOMAIN tasks |-> tasks[k].id] = <<3>>
    /\ Done => /\ iteration = 2
               /\ f_out = <<>>
               /\ Len(Records(disk)) = 3
               /\ Range(Records(disk)) = {ScenarioRow(1), ScenarioRow(2), ScenarioRow(3)}
               /\ disk[Len(disk)] = ScenarioRow(3)

\* C13 witness: the scenario has ended; the 404 of identifier 2 completed
\* before the page of identifier 1, and the record of identifier 3 is last.
C13_Witness ==
    /\ pc = "exit"
    /\ zips = 1
    /\ disk = <<Header, ScenarioRow(2), ScenarioRow(1), ScenarioRow(3)>>

\* C14 as stated: over all fetchers, concurrent or of different rounds, an
\* asset URL is downloaded at most once, and the documents that reference it
\* all hold the same reference.
C14_AtMostOneDownload ==
    /\ \A url \in AssetUrls : downloads[url] <= 1
    /\ \A d, e \in html_dir : d.url = e.url => d.href = e.href

\* C14 amended: the file-exists test is best effort.  A worker requests an
\* asset only when its test found no file at the save path, and a worker whose
\* test found the file makes no request and returns the local reference; the
\* downloads of a URL are those of the workers that tested before a file was
\* there, one each, whether or not their attempt ends well; files of ASSETS_DIR are never removed; and a document
\* references the asset either by the local path, which depends on the URL
\* alone, or, after an exception in download_asset, by the URL itself.
C14_DownloadOnlyIfAbsent ==
    [][/\ \A i \in Ids :
            /\ (fetcher[i].at = "idle" /\ fetcher'[i].at = "get")
                  => SaveName(fetcher'[i].url) \notin assets_dir
            /\ (fetcher[i].at = "idle" /\ fetcher'[i].at = "return")
                  => /\ SaveName(fetcher'[i].url) \in assets_dir
                     /\ fetcher'[i].resp = "none"
                     /\ fetcher'[i].ref = LocalRef(fetcher'[i].url)
                     /\ downloads' = downloads
            /\ fetcher'[i].saw_file => fetcher'[i].resp = "none"
       /\ \A url \in AssetUrls :
            downloads'[url] # downloads[url]
                => /\ downloads'[url] = downloads[url] + 1
                   /\ SaveName(url) \in assets_dir'
                   /\ \E i \in Ids : /\ fetcher[i].at = "write"
                                      /\ fetcher[i].url = url
                                      /\ ~fetcher[i].saw_file
                                      /\ fetcher'[i].at = "return"
       /\ assets_dir \subseteq assets_dir'
       /\ \A d \in html_dir' : d.href \in {LocalRef(d.url), d.url}]_vars

\* C14 witness: two workers tested before either had written; the same URL
\* was downloaded twice and both documents reference the same local path.
C14_Witness ==
    \E url \in AssetUrls :
        /\ downloads[url] = 2
        /\ \E d, e \in html_dir : /\ d.id # e.id
                                   /\ d.url = url /\ e.url = url
                                   /\ d.href = LocalRef(url) /\ e.href = LocalRef(url)

\* C19 as stated: when the request for an asset raises or returns a status
\* other than 200, the reference stays the URL; no document references a local
\* path at which no file was written; and an attempt that has written its
\* document ends with the status 200 of its page.
C19_FailedAssetKeepsUrl ==
    [][/\ \A i \in Ids :
            (fetcher'[i].at \in {"return", "saved"} /\ fetcher'[i].resp \in {"raises", "404"})
                => fetcher'[i].ref = fetcher'[i].url
       /\ \A d \in html_dir' :
            d.href = LocalRef(d.url) => SaveName(d.url) \in assets_dir'
       /\ \A k \in DOMAIN tasks :
            (fetcher[tasks[k].id].at = "saved" /\ tasks'[k].st = "done")
                => tasks'[k].result.status = 200]_vars

====
